---- MODULE Spec2Model ----
(***************************************************************************)
(* strong.hpp: the strong typedef wrapper strong::type<TypeName, Type>,    *)
(* the accessor strong::get and the operator mixins of strong::op,         *)
(* instantiated at one concrete strong type TypeName over Type = int with  *)
(* every mixin attached.  An instance is the record of its one private     *)
(* member, value.  Named instances live in heap; an operation returns      *)
(* either a new instance by value, a reference to a named instance, a      *)
(* reference to the underlying value, or a comparison Result.              *)
(*                                                                         *)
(* Signed overflow and division by zero are undefined for int; the mixins  *)
(* add no check, so the actions are enabled only for operands on which the *)
(* built-in operator is defined within the modelled range of int.          *)
(***************************************************************************)
EXTENDS Integers, Sequences, FiniteSets, TLC

\* The modelled int is MinInt..MaxInt.
MaxInt == 3
MinInt == -MaxInt - 1
Type == MinInt..MaxInt

\* The named instances of TypeName.
Obj == {"a", "b"}

VARIABLES
  heap,     \* [Obj -> instance]: the named instances, each [value |-> v]
  last,     \* the operation applied last, its operands and the heap before it
  ret,      \* what that operation returned
  stored,   \* the latest value put into an instance by construction or
            \* through the mutable accessor, while no operator changed it since
  plain,    \* a plain int taken through the same operations as instance "a"
  trace     \* the operations applied to instance "a" (counting scenario)

vars == <<heap, last, ret, stored, plain, trace>>

----------------------------------------------------------------------------
(* Built-in operators of Type = int.                                       *)

Abs(x) == IF x < 0 THEN -x ELSE x

\* int / int truncates toward zero.
int_div(x, y) ==
  IF (x < 0) = (y < 0) THEN Abs(x) \div Abs(y) ELSE -(Abs(x) \div Abs(y))

\* int % int: the remainder has the sign of the dividend.
int_mod(x, y) == x - y * int_div(x, y)

BinaryOps == {"+", "-", "*", "/", "%"}
CompoundOps == {"+=", "-=", "*=", "/="}

\* The binary operator a compound assignment applies.
BaseOp(op) ==
  CASE op = "+=" -> "+" [] op = "-=" -> "-" [] op = "*=" -> "*" [] op = "/=" -> "/"

\* The built-in operator op applied to two ints.
Builtin(op, x, y) ==
  CASE op = "+" -> x + y
    [] op = "-" -> x - y
    [] op = "*" -> x * y
    [] op = "/" -> int_div(x, y)
    [] op = "%" -> int_mod(x, y)

\* The built-in operator is defined on x, y with its result an int of range
\* R: no division by zero, no overflow (x % y overflows when x / y does).
Defined(op, x, y, R) ==
  IF op \in {"/", "%"}
  THEN y # 0 /\ int_div(x, y) \in R /\ Builtin(op, x, y) \in R
  ELSE Builtin(op, x, y) \in R

----------------------------------------------------------------------------
(* strong::type<TypeName, Type>                                            *)

\* Type(): value-initialisation of an int.
DefaultValue == 0

type_default_uninitialized == [value |-> MinInt]

\* type() : value()
type_default == [value |-> DefaultValue]

\* explicit type(Type const &v) : value(v)
type_copy(v) == [value |-> v]

type_move_dropped(v) == type_default

\* explicit type(Type &&v) : value(static_cast<Type &&>(v))
type_move(v) == [value |-> v]

\* explicit operator Type &() / operator Type const &() const: return value
conv(object) == object.value

\* get(object): static_cast<Type &>(object)
get(object) == conv(object)

\* A write through the Type & that the mutable get returns.
put(object, v) == [object EXCEPT !.value = v]

----------------------------------------------------------------------------
(* strong::op: the mixins.  A const operator takes instances and returns a *)
(* Result or a new instance.  A mutating operator takes the heap and the   *)
(* names of its operands and returns the heap after it with the name of    *)
(* the instance its returned reference denotes (ref), or with the instance *)
(* it returns by value (copy).                                             *)

\* equals: operator==
equals_eq(lhs, rhs) == get(lhs) = get(rhs)

\* equals: operator!=
equals_ne(lhs, rhs) == ~equals_eq(lhs, rhs)

orders_lt_or_equal(lhs, rhs) == get(lhs) <= get(rhs)

\* orders: operator<
orders_lt(lhs, rhs) == get(lhs) < get(rhs)

\* orders: operator<=
orders_le(lhs, rhs) == ~orders_lt(rhs, lhs)

\* orders: operator>
orders_gt(lhs, rhs) == get(lhs) > get(rhs)

orders_ge_unswapped(lhs, rhs) == ~orders_gt(lhs, rhs)

\* orders: operator>=
orders_ge(lhs, rhs) == ~orders_gt(rhs, lhs)

adds_plus_clamped(lhs, rhs) ==
  type_move(IF get(lhs) + get(rhs) < 0 THEN 0 ELSE get(lhs) + get(rhs))

\* adds: operator+
adds_plus(lhs, rhs) == type_move(get(lhs) + get(rhs))

\* adds: operator+=
adds_plus_assign(h, lhs, rhs) ==
  [heap |-> [h EXCEPT ![lhs] = put(h[lhs], get(h[lhs]) + get(h[rhs]))],
   ref |-> lhs]

\* subtracts: operator-
subtracts_minus(lhs, rhs) == type_move(get(lhs) - get(rhs))

subtracts_minus_assign_pasted(h, lhs, rhs) == adds_plus_assign(h, lhs, rhs)

\* subtracts: operator-=
subtracts_minus_assign(h, lhs, rhs) ==
  [heap |-> [h EXCEPT ![lhs] = put(h[lhs], get(h[lhs]) - get(h[rhs]))],
   ref |-> lhs]

\* multiplies: operator*
multiplies_times(lhs, rhs) == type_move(get(lhs) * get(rhs))

multiplies_times_assign_swapped(h, lhs, rhs) ==
  [heap |-> [h EXCEPT ![rhs] = put(h[rhs], get(h[rhs]) * get(h[lhs]))],
   ref |-> lhs]

\* multiplies: operator*=
multiplies_times_assign(h, lhs, rhs) ==
  [heap |-> [h EXCEPT ![lhs] = put(h[lhs], get(h[lhs]) * get(h[rhs]))],
   ref |-> lhs]

\* divides: operator/
divides_over(lhs, rhs) == type_move(int_div(get(lhs), get(rhs)))

\* divides: operator/=
divides_over_assign(h, lhs, rhs) ==
  [heap |-> [h EXCEPT ![lhs] = put(h[lhs], int_div(get(h[lhs]), get(h[rhs])))],
   ref |-> lhs]

\* modulo: operator%
modulo_mod(lhs, rhs) == type_move(int_mod(get(lhs), get(rhs)))

\* increments: operator++()
increments_prefix(h, this) ==
  [heap |-> [h EXCEPT ![this] = put(h[this], get(h[this]) + 1)],
   ref |-> this]

increments_postfix_conventional(h, this) ==
  [heap |-> increments_prefix(h, this).heap, copy |-> h[this]]

\* increments: operator++(int)
increments_postfix(h, this) ==
  LET object == increments_prefix(h, this)
  IN  [heap |-> object.heap, copy |-> object.heap[this]]

decrements_prefix_pasted(h, this) == increments_prefix(h, this)

\* decrements: operator--()
decrements_prefix(h, this) ==
  [heap |-> [h EXCEPT ![this] = put(h[this], get(h[this]) - 1)],
   ref |-> this]

\* decrements: operator--(int)
decrements_postfix(h, this) ==
  LET object == decrements_prefix(h, this)
  IN  [heap |-> object.heap, copy |-> object.heap[this]]

\* The binary operator of the mixin that provides op.
BinaryOp(op, lhs, rhs) ==
  CASE op = "+" -> adds_plus(lhs, rhs)
    [] op = "-" -> subtracts_minus(lhs, rhs)
    [] op = "*" -> multiplies_times(lhs, rhs)
    [] op = "/" -> divides_over(lhs, rhs)
    [] op = "%" -> modulo_mod(lhs, rhs)

\* The compound assignment of the mixin that provides op.
CompoundOp(op, h, lhs, rhs) ==
  CASE op = "+=" -> adds_plus_assign(h, lhs, rhs)
    [] op = "-=" -> subtracts_minus_assign(h, lhs, rhs)
    [] op = "*=" -> multiplies_times_assign(h, lhs, rhs)
    [] op = "/=" -> divides_over_assign(h, lhs, rhs)

CompareOps == {"==", "!=", "<", "<=", ">", ">="}

\* The comparison of the mixin that provides op.
CompareOp(op, lhs, rhs) ==
  CASE op = "==" -> equals_eq(lhs, rhs)
    [] op = "!=" -> equals_ne(lhs, rhs)
    [] op = "<" -> orders_lt(lhs, rhs)
    [] op = "<=" -> orders_le(lhs, rhs)
    [] op = ">" -> orders_gt(lhs, rhs)
    [] op = ">=" -> orders_ge(lhs, rhs)

StepOps == {"++x", "x++", "--x", "x--"}

\* The increment or decrement form op.
StepOp(op, h, this) ==
  CASE op = "++x" -> increments_prefix(h, this)
    [] op = "x++" -> increments_postfix(h, this)
    [] op = "--x" -> decrements_prefix(h, this)
    [] op = "x--" -> decrements_postfix(h, this)

----------------------------------------------------------------------------
(* What client code observes of a call.                                    *)

NoObj == "none"

\* The record of a call: the operator, its operands, the heap before it.
\* chained: the call is (lhs op rhs) op rhs2.
Call(op, chained, lhs, rhs, rhs2, arg) ==
  [op |-> op, chained |-> chained, lhs |-> lhs, rhs |-> rhs, rhs2 |-> rhs2,
   arg |-> arg, pre |-> heap]

\* Nothing returned (a constructor).
Nothing == [kind |-> "void", obj |-> NoObj, value |-> 0, result |-> FALSE]

\* A new instance of TypeName returned by value.
ByValue(object) ==
  [kind |-> "TypeName", obj |-> NoObj, value |-> object.value, result |-> FALSE]

\* A TypeName & denoting the named instance o.
ByRef(o) == [kind |-> "TypeName &", obj |-> o, value |-> 0, result |-> FALSE]

\* A Type & (or Type const &) into the named instance o, read as v.
ValueRef(kind, o, v) == [kind |-> kind, obj |-> o, value |-> v, result |-> FALSE]

\* A comparison's Result (bool).
Truth(b) == [kind |-> "Result", obj |-> NoObj, value |-> 0, result |-> b]

NoStore == [obj |-> NoObj, value |-> 0]

\* stored after an operator changed instance o.
Clobber(o) == IF stored.obj = o THEN NoStore ELSE stored

\* Every instance of heap h holds an int of range R.
Representable(h, R) == \A o \in Obj : h[o].value \in R

----------------------------------------------------------------------------
(* The calls, on the named instances.                                      *)

\* TypeName o;  (or o = TypeName())
DoDefaultConstruct(o) ==
  /\ heap' = [heap EXCEPT ![o] = type_default]
  /\ last' = Call("type()", FALSE, o, NoObj, NoObj, 0)
  /\ ret' = Nothing
  /\ stored' = Clobber(o)

\* TypeName o(v); with v an lvalue (copy) or an rvalue (move)
DoConstruct(how, o, v) ==
  /\ how \in {"type(Type const &)", "type(Type &&)"}
  /\ heap' = [heap EXCEPT ![o] =
                IF how = "type(Type &&)" THEN type_move(v) ELSE type_copy(v)]
  /\ last' = Call(how, FALSE, o, NoObj, NoObj, v)
  /\ ret' = Nothing
  /\ stored' = [obj |-> o, value |-> v]

ReadOps == {"get(T &)", "get(T const &)", "operator Type &", "operator Type const &"}

\* get(o) or static_cast<Type &>(o), read
DoRead(how, o) ==
  /\ how \in ReadOps
  /\ ret' = ValueRef(IF how \in {"get(T &)", "operator Type &"}
                     THEN "Type &" ELSE "Type const &",
                     o,
                     IF how \in {"get(T &)", "get(T const &)"}
                     THEN get(heap[o]) ELSE conv(heap[o]))
  /\ last' = Call(how, FALSE, o, NoObj, NoObj, 0)
  /\ UNCHANGED <<heap, stored>>

\* get(o) = w
DoWrite(o, w) ==
  /\ heap' = [heap EXCEPT ![o] = put(heap[o], w)]
  /\ last' = Call("get(T &) =", FALSE, o, NoObj, NoObj, w)
  /\ ret' = ValueRef("Type &", o, w)
  /\ stored' = [obj |-> o, value |-> w]

\* a op b, op one of + - * / %
DoBinary(op, a, b, R) ==
  /\ op \in BinaryOps
  /\ Defined(op, heap[a].value, heap[b].value, R)
  /\ ret' = ByValue(BinaryOp(op, heap[a], heap[b]))
  /\ last' = Call(op, FALSE, a, b, NoObj, 0)
  /\ UNCHANGED <<heap, stored>>

\* a op b, op one of == != < <= > >=
DoCompare(op, a, b) ==
  /\ op \in CompareOps
  /\ ret' = Truth(CompareOp(op, heap[a], heap[b]))
  /\ last' = Call(op, FALSE, a, b, NoObj, 0)
  /\ UNCHANGED <<heap, stored>>

\* a op= b
DoCompound(op, a, b, R) ==
  /\ op \in CompoundOps
  /\ Defined(BaseOp(op), heap[a].value, heap[b].value, R)
  /\ LET r == CompoundOp(op, heap, a, b)
     IN  /\ Representable(r.heap, R)
         /\ heap' = r.heap
         /\ ret' = ByRef(r.ref)
  /\ last' = Call(op, FALSE, a, b, NoObj, 0)
  /\ stored' = Clobber(a)

\* (a op= b) op= c: the second op= is applied to the reference that the
\* first returns
DoChain(op, a, b, c, R) ==
  /\ op \in CompoundOps
  /\ Defined(BaseOp(op), heap[a].value, heap[b].value, R)
  /\ LET r1 == CompoundOp(op, heap, a, b)
     IN  /\ Representable(r1.heap, R)
         /\ Defined(BaseOp(op), r1.heap[r1.ref].value, r1.heap[c].value, R)
         /\ LET r2 == CompoundOp(op, r1.heap, r1.ref, c)
            IN  /\ Representable(r2.heap, R)
                /\ heap' = r2.heap
                /\ ret' = ByRef(r2.ref)
  /\ last' = Call(op, TRUE, a, b, c, 0)
  /\ stored' = Clobber(a)

\* ++o, o++, --o, o--
DoStep(op, o, R) ==
  /\ op \in StepOps
  /\ LET r == StepOp(op, heap, o)
     IN  /\ Representable(r.heap, R)
         /\ heap' = r.heap
         /\ ret' = IF op \in {"++x", "--x"} THEN ByRef(r.ref) ELSE ByValue(r.copy)
  /\ last' = Call(op, FALSE, o, NoObj, NoObj, 0)
  /\ stored' = Clobber(o)

----------------------------------------------------------------------------
(* Arbitrary client code over the named instances.                         *)

Init ==
  /\ heap \in [Obj -> {type_copy(v) : v \in Type}]
  /\ last = Call("", FALSE, NoObj, NoObj, NoObj, 0)
  /\ ret = Nothing
  /\ stored = NoStore
  /\ plain = 0
  /\ trace = <<>>

DefaultConstruct ==
  \E o \in Obj : DoDefaultConstruct(o) /\ UNCHANGED <<plain, trace>>

CopyConstruct ==
  \E o \in Obj, v \in Type :
    DoConstruct("type(Type const &)", o, v) /\ UNCHANGED <<plain, trace>>

MoveConstruct ==
  \E o \in Obj, v \in Type :
    DoConstruct("type(Type &&)", o, v) /\ UNCHANGED <<plain, trace>>

Read ==
  \E how \in ReadOps, o \in Obj : DoRead(how, o) /\ UNCHANGED <<plain, trace>>

Write ==
  \E o \in Obj, w \in Type : DoWrite(o, w) /\ UNCHANGED <<plain, trace>>

Binary ==
  \E op \in BinaryOps, a \in Obj, b \in Obj :
    DoBinary(op, a, b, Type) /\ UNCHANGED <<plain, trace>>

Compare ==
  \E op \in CompareOps, a \in Obj, b \in Obj :
    DoCompare(op, a, b) /\ UNCHANGED <<plain, trace>>

Compound ==
  \E op \in CompoundOps, a \in Obj, b \in Obj :
    DoCompound(op, a, b, Type) /\ UNCHANGED <<plain, trace>>

Chain ==
  \E op \in CompoundOps, a \in Obj, b \in Obj, c \in Obj :
    DoChain(op, a, b, c, Type) /\ UNCHANGED <<plain, trace>>

Step ==
  \E op \in StepOps, o \in Obj : DoStep(op, o, Type) /\ UNCHANGED <<plain, trace>>

Next ==
  \/ DefaultConstruct
  \/ CopyConstruct
  \/ MoveConstruct
  \/ Read
  \/ Write
  \/ Binary
  \/ Compare
  \/ Compound
  \/ Chain
  \/ Step

Spec == Init /\ [][Next]_vars

----------------------------------------------------------------------------
(* The counting scenario of examples/computer_architecture.cpp: one        *)
(* instance, "a" (less_cycles), taken through +=, -=, ++ and -- in any     *)
(* order, beside a plain int taken through the same operations.  "b" is    *)
(* the temporary cycle_count(k) of a compound assignment.  The values stay *)
(* within MaxOps steps of the start, far inside int, so the range is Int.  *)

\* The longest sequence of operations applied.
MaxOps == 5

\* The amounts added and subtracted: cycle_count(4), cycle_count(3).
Amounts == {3, 4}

\* What the built-in operators do to a plain int x.
PlainApply(op, x, k) ==
  CASE op = "+=" -> x + k
    [] op = "-=" -> x - k
    [] op \in {"++x", "x++"} -> x + 1
    [] op \in {"--x", "x--"} -> x - 1

\* cycles(50), more_cycles(60), even_more_cycles = cycles + more_cycles,
\* less_cycles = even_more_cycles - cycles
InitCount ==
  /\ heap = [o \in Obj |->
               IF o = "a"
               THEN subtracts_minus(adds_plus(type_copy(50), type_copy(60)),
                                    type_copy(50))
               ELSE type_default]
  /\ last = Call("", FALSE, NoObj, NoObj, NoObj, 0)
  /\ ret = Nothing
  /\ stored = NoStore
  /\ plain = (50 + 60) - 50
  /\ trace = <<>>

\* less_cycles += cycle_count(k);  less_cycles -= cycle_count(k);
CountCompound ==
  \E op \in {"+=", "-="}, k \in Amounts :
    /\ Len(trace) < MaxOps
    /\ LET temp == [heap EXCEPT !["b"] = type_move(k)]
           r == CompoundOp(op, temp, "a", "b")
       IN  /\ heap' = r.heap
           /\ ret' = ByRef(r.ref)
           /\ last' = [Call(op, FALSE, "a", "b", NoObj, k) EXCEPT !.pre = temp]
    /\ stored' = NoStore
    /\ plain' = PlainApply(op, plain, k)
    /\ trace' = Append(trace, <<op, k>>)

\* ++less_cycles;  less_cycles++;  --less_cycles;  less_cycles--;
CountStep ==
  \E op \in StepOps :
    /\ Len(trace) < MaxOps
    /\ DoStep(op, "a", Int)
    /\ plain' = PlainApply(op, plain, 1)
    /\ trace' = Append(trace, <<op, 1>>)

NextCount ==
  \/ CountCompound
  \/ CountStep

SpecCount == InitCount /\ [][NextCount]_vars

----------------------------------------------------------------------------
(* Properties.  a, b, c are the operands of the call applied last and pre  *)
(* is the heap before it.                                                  *)

\* C1: a binary operator (+ - * / %) returns a new instance of TypeName
\* whose underlying value is the built-in operator applied to the two
\* operands' underlying values, with nothing clamped or checked on top.
C1_BinaryResult ==
  last.op \in BinaryOps =>
    /\ ret.kind = "TypeName"
    /\ ret.value = Builtin(last.op, last.pre[last.lhs].value,
                           last.pre[last.rhs].value)

\* C1 witness: a % b was applied to a negative a and returned a negative
\* remainder.
C1_Witness ==
  /\ last.op = "%"
  /\ last.lhs # last.rhs
  /\ last.pre[last.lhs].value < 0
  /\ ret.value < 0

\* C2: after a op= b the underlying value of a is what a op b was before
\* the assignment, and the reference returned denotes a itself, so that
\* (a op= b) op= c applies both assignments to a; c or b may be a.
C2_CompoundAssign ==
  last.op \in CompoundOps =>
    LET a == last.lhs
        bop == BaseOp(last.op)
        once == Builtin(bop, last.pre[a].value, last.pre[last.rhs].value)
        c == IF last.rhs2 = a THEN once ELSE last.pre[last.rhs2].value
    IN  /\ ret.kind = "TypeName &"
        /\ ret.obj = a
        /\ ~last.chained =>
             /\ heap[a].value = once
             /\ heap[a].value = BinaryOp(bop, last.pre[a], last.pre[last.rhs]).value
        /\ last.chained => heap[a].value = Builtin(bop, once, c)

\* C2 witness: (a -= b) -= a with a and b distinct and non-zero: the second
\* assignment reads the a the first one changed and leaves it zero.
C2_Witness ==
  /\ last.op = "-="
  /\ last.chained
  /\ last.lhs # last.rhs
  /\ last.rhs2 = last.lhs
  /\ last.pre[last.lhs].value # 0
  /\ last.pre[last.rhs].value # 0
  /\ ret.obj = last.lhs
  /\ heap[last.lhs].value = 0

\* The sequence of main(): += 4, -= 3, ++x, x++, --x.
ExampleTrace ==
  << <<"+=", 4>>, <<"-=", 3>>, <<"++x", 1>>, <<"x++", 1>>, <<"--x", 1>> >>

\* C3: after every step of any sequence of +=, -=, ++x, x++, --x, x-- the
\* instance's underlying value is what a plain int holds after the same
\* sequence; from 110 - 50 = 60 the sequence of main() leaves 62.
C3_CountsLikePlainInt ==
  /\ heap["a"].value = plain
  /\ trace = ExampleTrace => heap["a"].value = 62

\* C3 witness: the sequence of main() was applied.
C3_Witness ==
  /\ trace = ExampleTrace
  /\ heap["a"].value = 62
  /\ plain = 62

\* C4: x++ and x-- return a copy holding the value x has after the
\* operation (old + 1, old - 1), not the value before it: the value the
\* prefix form returns from the same start.
C4_PostfixReturnsMutated ==
  last.op \in {"x++", "x--"} =>
    LET o == last.lhs
        old == last.pre[o].value
        prefix == StepOp(IF last.op = "x++" THEN "++x" ELSE "--x", last.pre, o)
    IN  /\ ret.kind = "TypeName"
        /\ ret.value = heap[o].value
        /\ ret.value = (IF last.op = "x++" THEN old + 1 ELSE old - 1)
        /\ ret.value # old
        /\ ret.value = prefix.heap[prefix.ref].value

\* C4 witness: x++ returned old + 1.
C4_Witness ==
  /\ last.op = "x++"
  /\ ret.kind = "TypeName"
  /\ ret.value = last.pre[last.lhs].value + 1

\* C5: a <= b is not(b < a) and a >= b is not(a < b), while < and >
\* compare the underlying values themselves.
C5_DerivedOrdering ==
  LET a == last.pre[last.lhs]
      b == last.pre[last.rhs]
  IN  /\ last.op = "<=" => ret.result = ~orders_lt(b, a)
      /\ last.op = ">=" => ret.result = ~orders_lt(a, b)
      /\ last.op = "<" => ret.result = (a.value < b.value)
      /\ last.op = ">" => ret.result = (a.value > b.value)

\* C5 witness: a >= b held of two distinct instances of equal value.
C5_Witness ==
  /\ last.op = ">="
  /\ last.lhs # last.rhs
  /\ heap[last.lhs].value = heap[last.rhs].value
  /\ ret.result

ExactlyOne(p, q, r) ==
  \/ p /\ ~q /\ ~r
  \/ ~p /\ q /\ ~r
  \/ ~p /\ ~q /\ r

\* C6: of a < b, a == b, b < a exactly one holds; a == b holds exactly when
\* the underlying values are equal, and a != b is the negation of a == b.
C6_Trichotomy ==
  /\ \A x \in Obj, y \in Obj :
       ExactlyOne(orders_lt(heap[x], heap[y]),
                  equals_eq(heap[x], heap[y]),
                  orders_lt(heap[y], heap[x]))
  /\ last.op = "==" =>
       ret.result = (last.pre[last.lhs].value = last.pre[last.rhs].value)
  /\ last.op = "!=" =>
       ret.result = ~equals_eq(last.pre[last.lhs], last.pre[last.rhs])

\* C6 witness: a != b held with b < a.
C6_Witness ==
  /\ last.op = "!="
  /\ ret.result
  /\ orders_lt(heap[last.rhs], heap[last.lhs])
  /\ ~orders_lt(heap[last.lhs], heap[last.rhs])

\* C8: an instance constructed from v, by copy or by move, or written w
\* through the mutable get, reads back as that value through get and through
\* the explicit conversion, in either overload, until an operator changes it.
C8_RoundTrip ==
  /\ last.op \in {"type(Type const &)", "type(Type &&)", "get(T &) ="} =>
       /\ get(heap[last.lhs]) = last.arg
       /\ conv(heap[last.lhs]) = last.arg
       /\ stored = [obj |-> last.lhs, value |-> last.arg]
  /\ (last.op \in ReadOps /\ stored.obj = last.lhs) => ret.value = stored.value

\* C8 witness: a non-zero value put into an instance was read back through
\* the immutable conversion.
C8_Witness ==
  /\ last.op = "operator Type const &"
  /\ stored.obj = last.lhs
  /\ stored.value # 0
  /\ ret.value = stored.value

\* C9: a default-constructed instance reads as zero through get and through
\* the explicit conversion.
C9_DefaultIsZero ==
  last.op = "type()" =>
    /\ get(heap[last.lhs]) = 0
    /\ conv(heap[last.lhs]) = 0

\* C9 witness: an instance that held a non-zero value was default-constructed.
C9_Witness ==
  /\ last.op = "type()"
  /\ last.pre[last.lhs].value # 0
  /\ heap[last.lhs].value = 0

\* C10: binary operators and comparisons change no instance; a op= b, also
\* chained, and ++ and -- change no instance but their left operand.
C10_Frame ==
  /\ last.op \in BinaryOps \cup CompareOps => heap = last.pre
  /\ last.op \in CompoundOps \cup StepOps =>
       \A o \in Obj \ {last.lhs} : heap[o] = last.pre[o]

\* C10 witness: a *= b changed a and left the distinct b as it was.
C10_Witness ==
  /\ last.op = "*="
  /\ last.lhs # last.rhs
  /\ heap[last.lhs] # last.pre[last.lhs]
  /\ heap[last.rhs] = last.pre[last.rhs]

====
